---- MODULE Spec2Model ----
(***************************************************************************)
(* Congestion-window control of the two TCP congestion-control modules     *)
(* reno_abc (src/reno_abc.c) and reno_fair (src/reno_fair.c).              *)
(*                                                                         *)
(* Every field of struct tcp_sock the modules touch is a u32.  TLC's       *)
(* integers stop at 2^31 - 1, so a u32 is kept as a pair <<hi, lo>> of     *)
(* 16-bit halves (value = hi * 65536 + lo) and the C operators on u32 are  *)
(* computed on the halves, with the carry / overflow of each operation     *)
(* reported next to its wrapped result.                                    *)
(***************************************************************************)
EXTENDS Integers, Sequences, FiniteSets, TLC

VARIABLES ca, tp, call, stack, nacks, nevents

vars == <<ca, tp, call, stack, nacks, nevents>>

(***************************************************************************)
(* u32 arithmetic                                                          *)
(***************************************************************************)
Half == 65536

\* the u32 with value n, for a literal n below 2^31
U32(n) == <<n \div Half, n % Half>>

Zero == <<0, 0>>
One == <<0, 1>>
U32_MAX == <<Half - 1, Half - 1>>

IsU32(a) == a[1] \in 0 .. Half - 1 /\ a[2] \in 0 .. Half - 1

\* a < b, a <= b on u32
Lt(a, b) == a[1] < b[1] \/ (a[1] = b[1] /\ a[2] < b[2])
Le(a, b) == ~Lt(b, a)

\* the kernel's min() and max() macros on u32
min(a, b) == IF Lt(a, b) THEN a ELSE b
max(a, b) == IF Lt(a, b) THEN b ELSE a

\* a + b on u32: the wrapped sum and the carry out of bit 31
Add(a, b) ==
    LET lo == a[2] + b[2]
        hi == a[1] + b[1] + (lo \div Half)
    IN  [val |-> <<hi % Half, lo % Half>>, carry |-> hi \div Half]

\* a - b on u32, wrapped modulo 2^32
Sub(a, b) ==
    LET lo == a[2] - b[2]
        borrow == IF lo < 0 THEN 1 ELSE 0
        hi == a[1] - b[1] - borrow
    IN  <<(hi + Half) % Half, (lo + Half) % Half>>

\* a >> k on u32, for 0 < k < 16
Shr(a, k) ==
    LET p == 2 ^ k
    IN  <<a[1] \div p, ((a[1] % p) * Half + a[2]) \div p>>

\* the 32-bit product of two 16-bit halves, as a pair of halves
Mul16(x, y) ==
    LET p1 == (x \div 256) * y
        p0 == (x % 256) * y
        lo == (p1 % 256) * 256 + p0
    IN  <<(p1 \div 256) + (lo \div Half), lo % Half>>

\* a * b on u32: the product wrapped modulo 2^32, and whether the
\* unbounded product needs more than 32 bits
Mul(a, b) ==
    LET ll == Mul16(a[2], b[2])
        lh == Mul16(a[2], b[1])
        hl == Mul16(a[1], b[2])
        hh == Mul16(a[1], b[1])
        mid == ll[1] + lh[2] + hl[2]
    IN  [val |-> <<mid % Half, ll[2]>>,
         ovf |-> (hh /= Zero) \/ (lh[1] + hl[1] + (mid \div Half) > 0)]

\* hexadecimal digit i (0 .. 7) of a
Nibble(a, i) == IF i >= 4 THEN (a[1] \div (16 ^ (i - 4))) % 16 ELSE (a[2] \div (16 ^ i)) % 16

\* b * k for a digit k; the high half is left unreduced (the product may
\* need 36 bits)
Times(b, k) == <<b[1] * k + ((b[2] * k) \div Half), (b[2] * k) % Half>>

\* One step of long division in base 16, on st = <<quotient, remainder>>:
\* bring digit i of a down into the remainder, take the largest digit d
\* with d * b <= remainder, subtract d * b.  The remainder keeps its high
\* half unreduced (16 * remainder + 15 may need 36 bits).
DivStep(a, b, i, st) ==
    LET Step(s) ==
            LET q == s[1]
                r == s[2]
                lo == 16 * r[2] + Nibble(a, i)
                r1 == <<16 * r[1] + (lo \div Half), lo % Half>>
                d == Cardinality({k \in 1 .. 15 : Le(Times(b, k), r1)})
                db == Times(b, d)
                borrow == IF r1[2] < db[2] THEN 1 ELSE 0
                qlo == 16 * q[2] + d
            IN  << <<16 * q[1] + (qlo \div Half), qlo % Half>>,
                   <<r1[1] - db[1] - borrow, r1[2] - db[2] + borrow * Half>> >>
    IN  \* st is evaluated once, and the step taken on its value
        CHOOSE out \in {Step(s) : s \in {st}} : TRUE

\* floor(x / y), y /= 0: the eight digits of x, highest first
DivDigits(x, y) ==
    LET s7 == DivStep(x, y, 7, <<Zero, Zero>>)
        s6 == DivStep(x, y, 6, s7)
        s5 == DivStep(x, y, 5, s6)
        s4 == DivStep(x, y, 4, s5)
        s3 == DivStep(x, y, 3, s4)
        s2 == DivStep(x, y, 2, s3)
        s1 == DivStep(x, y, 1, s2)
        s0 == DivStep(x, y, 0, s1)
    IN  IF x[1] = 0 /\ y[1] = 0 THEN <<0, x[2] \div y[2]>> ELSE s0[1]

\* floor(a / b) on u32, b /= 0; a and b are evaluated once
Div(a, b) == CHOOSE out \in {DivDigits(ab[1], ab[2]) : ab \in {<<a, b>>}} : TRUE

(***************************************************************************)
(* Program constants and the inputs the model draws                        *)
(***************************************************************************)
\* #define BASE_RTT_US 10000 (microseconds)
BASE_RTT_US == 10000

\* TCP_INFINITE_SSTHRESH, 0x7fffffff
TCP_INFINITE_SSTHRESH == 2147483647

\* the most OnAcknowledge calls and congestion events on one connection
MaxAcks == 2
MaxEvents == 1

Variants == {"reno_abc", "reno_fair"}

\* acked: less than one MSS, whole segments, more than a window, and the
\* two largest u32 values
AckedSamples == {Zero, U32(100), U32(9000), U32(25000), <<Half - 1, Half - 2>>, U32_MAX}

\* mss_cache: 0 (never in practice, to be treated defensively), 1 and two
\* usual sizes
MssSamples == {Zero, One, U32(1000), U32(1460)}

\* snd_cwnd_clamp: a small clamp, and the stack's default ~0
ClampSamples == {U32(12), U32_MAX}

\* srtt_us (microseconds << 3): current_rtt 0, 10000, 19999, 20000, 200000
\* and the largest
SrttSamples == {Zero, U32(80000), U32(159999), U32(160000), U32(1600000), U32_MAX}

\* what the field values may be before the module's init is called
PriorCwndSamples == {U32(10), U32_MAX}
PriorSsthreshSamples == {U32(2), U32(TCP_INFINITE_SSTHRESH)}

\* A division by zero is undefined: the build may trap (the call never
\* returns), or deliver any quotient.
UBOutcomes == {[trap |-> TRUE, val |-> Zero],
               [trap |-> FALSE, val |-> Zero],
               [trap |-> FALSE, val |-> U32_MAX]}
NoUB == [trap |-> FALSE, val |-> Zero]

\* a / b as the C code computes it; ub is the outcome taken when b is 0
udiv(a, b, ub) ==
    IF b = Zero THEN [val |-> ub.val, div0 |-> TRUE, trap |-> ub.trap]
    ELSE [val |-> Div(a, b), div0 |-> FALSE, trap |-> FALSE]

(***************************************************************************)
(* The kernel helpers the modules call (net/ipv4/tcp_cong.c).  t is the    *)
(* struct tcp_sock; each returns the updated struct and what it observed.  *)
(***************************************************************************)
\* u32 tcp_slow_start(tp, acked):
\*   cwnd = min(snd_cwnd + acked, snd_ssthresh); acked -= cwnd - snd_cwnd;
\*   snd_cwnd = min(cwnd, snd_cwnd_clamp); return acked;
tcp_slow_start(t, acked) ==
    LET s == Add(t.snd_cwnd, acked)
        cwnd == min(s.val, t.snd_ssthresh)
    IN  [tp |-> [t EXCEPT !.snd_cwnd = min(cwnd, t.snd_cwnd_clamp)],
         ret |-> Sub(acked, Sub(cwnd, t.snd_cwnd)),
         wrapped |-> IF s.carry = 1 THEN {"tcp_slow_start: snd_cwnd + acked"} ELSE {}]

\* void tcp_cong_avoid_ai(tp, w, acked):
\*   if (snd_cwnd_cnt >= w) { snd_cwnd_cnt = 0; snd_cwnd++; }
\*   snd_cwnd_cnt += acked;
\*   if (snd_cwnd_cnt >= w) { delta = snd_cwnd_cnt / w;
\*                            snd_cwnd_cnt -= delta * w; snd_cwnd += delta; }
\*   snd_cwnd = min(snd_cwnd, snd_cwnd_clamp);
tcp_cong_avoid_ai(t, w, acked, ub) ==
    LET stale == Le(w, t.snd_cwnd_cnt)
        inc == Add(t.snd_cwnd, One)
        cwnd1 == IF stale THEN inc.val ELSE t.snd_cwnd
        sum == Add(IF stale THEN Zero ELSE t.snd_cwnd_cnt, acked)
        cnt2 == sum.val
        wrapped == (IF stale /\ inc.carry = 1 THEN {"tcp_cong_avoid_ai: snd_cwnd++"} ELSE {})
                   \cup (IF sum.carry = 1 THEN {"tcp_cong_avoid_ai: snd_cwnd_cnt += acked"} ELSE {})
        \* the second if's body, q being snd_cwnd_cnt / w
        Credit(q) ==
            LET grown == Add(cwnd1, q.val)
            IN  IF q.trap
                THEN [tp |-> [t EXCEPT !.snd_cwnd = cwnd1, !.snd_cwnd_cnt = cnt2],
                      div0 |-> TRUE, trap |-> TRUE, wrapped |-> wrapped]
                ELSE [tp |-> [t EXCEPT !.snd_cwnd = min(grown.val, t.snd_cwnd_clamp),
                                       !.snd_cwnd_cnt = Sub(cnt2, Mul(q.val, w).val)],
                      div0 |-> q.div0, trap |-> FALSE,
                      wrapped |-> wrapped \cup (IF grown.carry = 1
                                                THEN {"tcp_cong_avoid_ai: snd_cwnd += delta"}
                                                ELSE {})]
    IN  IF Le(w, cnt2) THEN CHOOSE out \in {Credit(q) : q \in {udiv(cnt2, w, ub)}} : TRUE
        ELSE [tp |-> [t EXCEPT !.snd_cwnd = min(cwnd1, t.snd_cwnd_clamp),
                               !.snd_cwnd_cnt = cnt2],
              div0 |-> FALSE, trap |-> FALSE, wrapped |-> wrapped]

\* what one cong_avoid call did: the struct after it, the branch taken, the
\* arguments handed to tcp_cong_avoid_ai, whether it divided by zero (and
\* trapped there), and the u32 expressions of the module that wrapped
NoAi == [called |-> FALSE, w |-> Zero, acked |-> Zero]
Ai(w, acked) == [called |-> TRUE, w |-> w, acked |-> acked]
Done(t, branch, ai, div0, trap, wrapped) ==
    [tp |-> t, branch |-> branch, ai |-> ai, div0 |-> div0, trap |-> trap, wrapped |-> wrapped]

(***************************************************************************)
(* reno_abc                                                                *)
(***************************************************************************)
tcp_reno_abc_init(t) ==
    [t EXCEPT !.snd_ssthresh = U32(TCP_INFINITE_SSTHRESH), !.snd_cwnd = One]

\* tcp_reno_abc_ssthresh without the floor of 2
Mut_ssthresh_no_floor(t) == Shr(t.snd_cwnd, 1)

tcp_reno_abc_ssthresh(t) == max(Shr(t.snd_cwnd, 1), U32(2))

\* the slow-start branch of tcp_reno_abc_cong_avoid
abc_slow_start(t, acked, ub) ==
    LET \* from "if (delta == 0)" on, q being acked / tp->mss_cache
        Grow(q) ==
            LET delta == IF q.val = Zero THEN One ELSE q.val
                sum == Add(t.snd_cwnd, delta)
            IN  IF q.trap THEN Done(t, "slow_start", NoAi, TRUE, TRUE, {})
                ELSE Done([t EXCEPT !.snd_cwnd = min(sum.val, t.snd_cwnd_clamp)],
                          "slow_start", NoAi, q.div0, FALSE,
                          IF sum.carry = 1 THEN {"snd_cwnd += delta"} ELSE {})
    IN  CHOOSE out \in {Grow(q) : q \in {udiv(acked, t.mss_cache, ub)}} : TRUE

\* the congestion-avoidance branch of tcp_reno_abc_cong_avoid
abc_cong_avoid(t, acked, ub) ==
    LET w == t.snd_cwnd
        \* from "if (acked >= target)" on, prod being w * tp->mss_cache
        Body(prod) ==
            LET target == prod.val
                wt == IF prod.ovf THEN {"target = w * mss_cache"} ELSE {}
                \* tp->snd_cwnd += acked / target, and the clamp
                Whole(q) ==
                    LET sum == Add(t.snd_cwnd, q.val)
                    IN  IF q.trap THEN Done(t, "cong_avoid", NoAi, TRUE, TRUE, wt)
                        ELSE Done([t EXCEPT !.snd_cwnd = min(sum.val, t.snd_cwnd_clamp)],
                                  "cong_avoid", NoAi, q.div0, FALSE,
                                  wt \cup (IF sum.carry = 1
                                           THEN {"snd_cwnd += acked / target"} ELSE {}))
                \* tcp_cong_avoid_ai(tp, w, acked), and the clamp
                Part(ai) ==
                    IF ai.trap THEN Done(ai.tp, "cong_avoid", Ai(w, acked), TRUE, TRUE, wt)
                    ELSE Done([ai.tp EXCEPT !.snd_cwnd = min(ai.tp.snd_cwnd, t.snd_cwnd_clamp)],
                              "cong_avoid", Ai(w, acked), ai.div0, FALSE, wt \cup ai.wrapped)
            IN  IF Le(target, acked)
                THEN CHOOSE out \in {Whole(q) : q \in {udiv(acked, target, ub)}} : TRUE
                ELSE CHOOSE out \in {Part(ai) : ai \in {tcp_cong_avoid_ai(t, w, acked, ub)}} : TRUE
    IN  CHOOSE out \in {Body(prod) : prod \in {Mul(w, t.mss_cache)}} : TRUE

\* tcp_reno_abc_cong_avoid lowering snd_ssthresh to the window before the
\* congestion-avoidance branch
Mut_abc_cong_avoid_writes_ssthresh(t, limited, acked, ub) ==
    IF ~limited THEN Done(t, "none", NoAi, FALSE, FALSE, {})
    ELSE IF Le(t.snd_cwnd, t.snd_ssthresh) THEN abc_slow_start(t, acked, ub)
    ELSE abc_cong_avoid([t EXCEPT !.snd_ssthresh = t.snd_cwnd], acked, ub)

\* tcp_reno_abc_cong_avoid without the tcp_is_cwnd_limited guard
Mut_abc_cong_avoid_unguarded(t, limited, acked, ub) ==
    IF Le(t.snd_cwnd, t.snd_ssthresh) THEN abc_slow_start(t, acked, ub)
    ELSE abc_cong_avoid(t, acked, ub)

tcp_reno_abc_cong_avoid(t, limited, acked, ub) ==
    IF ~limited THEN Done(t, "none", NoAi, FALSE, FALSE, {})
    ELSE IF Le(t.snd_cwnd, t.snd_ssthresh) THEN abc_slow_start(t, acked, ub)
    ELSE abc_cong_avoid(t, acked, ub)

\* tcp_reno_abc_undo_cwnd returning the current window, as reno_fair's does
Mut_abc_undo_returns_cwnd(t) == t.snd_cwnd

tcp_reno_abc_undo_cwnd(t) == max(t.snd_cwnd, t.prior_cwnd)

(***************************************************************************)
(* reno_fair                                                               *)
(***************************************************************************)
\* tcp_fair_init without the assignment to snd_ssthresh
Mut_fair_init_keeps_ssthresh(t) == [t EXCEPT !.snd_cwnd = One]

tcp_fair_init(t) ==
    [t EXCEPT !.snd_ssthresh = U32(TCP_INFINITE_SSTHRESH), !.snd_cwnd = One]

tcp_fair_ssthresh(t) == max(Shr(t.snd_cwnd, 1), U32(2))

\* current_rtt_us = srtt_us >> 3; rtt_ratio = 1, or current_rtt_us /
\* BASE_RTT_US when current_rtt_us > BASE_RTT_US
fair_rtt_ratio(srtt_us) ==
    LET current_rtt_us == Shr(srtt_us, 3)
    IN  IF Lt(U32(BASE_RTT_US), current_rtt_us)
        THEN Div(current_rtt_us, U32(BASE_RTT_US))
        ELSE One

\* the slow-start branch of tcp_fair_cong_avoid: returns before the final
\* clamp when tcp_slow_start used up all of acked
fair_slow_start(t, acked) ==
    LET Rest(ss) ==
            IF ss.ret = Zero THEN Done(ss.tp, "slow_start", NoAi, FALSE, FALSE, ss.wrapped)
            ELSE Done([ss.tp EXCEPT !.snd_cwnd = min(ss.tp.snd_cwnd, t.snd_cwnd_clamp)],
                      "slow_start", NoAi, FALSE, FALSE, ss.wrapped)
    IN  CHOOSE out \in {Rest(ss) : ss \in {tcp_slow_start(t, acked)}} : TRUE

\* the congestion-avoidance branch of tcp_fair_cong_avoid
fair_cong_avoid(t, acked, ub) ==
    LET \* the call of tcp_cong_avoid_ai, prod being acked * rtt_ratio
        Body(prod) ==
            LET wp == IF prod.ovf THEN {"acked * rtt_ratio"} ELSE {}
                Rest(ai) ==
                    IF ai.trap
                    THEN Done(ai.tp, "cong_avoid", Ai(t.snd_cwnd, prod.val), TRUE, TRUE, wp)
                    ELSE Done([ai.tp EXCEPT !.snd_cwnd = min(ai.tp.snd_cwnd, t.snd_cwnd_clamp)],
                              "cong_avoid", Ai(t.snd_cwnd, prod.val), ai.div0, FALSE,
                              wp \cup ai.wrapped)
            IN  CHOOSE out \in {Rest(ai) : ai \in {tcp_cong_avoid_ai(t, t.snd_cwnd, prod.val, ub)}} : TRUE
    IN  CHOOSE out \in {Body(prod) : prod \in {Mul(acked, fair_rtt_ratio(t.srtt_us))}} : TRUE

tcp_fair_cong_avoid(t, limited, acked, ub) ==
    IF ~limited THEN Done(t, "none", NoAi, FALSE, FALSE, {})
    ELSE IF Le(t.snd_cwnd, t.snd_ssthresh) THEN fair_slow_start(t, acked)
    ELSE fair_cong_avoid(t, acked, ub)

\* tcp_fair_undo_cwnd restoring the snapshot, as reno_abc's does
Mut_fair_undo_restores_prior(t) == max(t.snd_cwnd, t.prior_cwnd)

tcp_fair_undo_cwnd(t) == t.snd_cwnd

(***************************************************************************)
(* struct tcp_congestion_ops: the operation the stack reaches by name      *)
(***************************************************************************)
ops_init(name, t) ==
    IF name = "reno_abc" THEN tcp_reno_abc_init(t) ELSE tcp_fair_init(t)
ops_ssthresh(name, t) ==
    IF name = "reno_abc" THEN tcp_reno_abc_ssthresh(t) ELSE tcp_fair_ssthresh(t)
ops_cong_avoid(name, t, limited, acked, ub) ==
    IF name = "reno_abc" THEN tcp_reno_abc_cong_avoid(t, limited, acked, ub)
    ELSE tcp_fair_cong_avoid(t, limited, acked, ub)
ops_undo_cwnd(name, t) ==
    IF name = "reno_abc" THEN tcp_reno_abc_undo_cwnd(t) ELSE tcp_fair_undo_cwnd(t)

(***************************************************************************)
(* State                                                                   *)
(*   ca       the module bound to the connection (tcp_congestion_ops.name) *)
(*   tp       the fields of struct tcp_sock the modules read or write      *)
(*   call     the last operation: its inputs, the struct before it (pre)   *)
(*            and what it did                                              *)
(*   stack    where the transport stack is in its congestion handling      *)
(*   nacks, nevents   cong_avoid calls and congestion events so far        *)
(***************************************************************************)
Call(op, limited, acked, pre, r, ret) ==
    [op |-> op, limited |-> limited, acked |-> acked, pre |-> pre,
     branch |-> r.branch, ai |-> r.ai, ret |-> ret,
     div0 |-> r.div0, trap |-> r.trap, wrapped |-> r.wrapped]

\* an operation that is no cong_avoid call
Plain(op, pre, ret) ==
    Call(op, FALSE, Zero, pre, Done(pre, "none", NoAi, FALSE, FALSE, {}), ret)

Init ==
    /\ ca \in Variants
    /\ \E cwnd \in PriorCwndSamples, ssthresh \in PriorSsthreshSamples,
          clamp \in ClampSamples, mss \in MssSamples, srtt \in SrttSamples :
          \* reno_abc never reads srtt_us, reno_fair never reads mss_cache
          /\ ca = "reno_abc" => srtt = Zero
          /\ ca = "reno_fair" => mss = U32(1460)
          /\ tp = [snd_cwnd |-> cwnd, snd_ssthresh |-> ssthresh, snd_cwnd_cnt |-> Zero,
                   mss_cache |-> mss, srtt_us |-> srtt, snd_cwnd_clamp |-> clamp,
                   prior_cwnd |-> Zero]
    /\ call = Plain("none", tp, Zero)
    /\ stack = "setup"
    /\ nacks = 0
    /\ nevents = 0

\* .init, once, at connection establishment
Initialize ==
    /\ stack = "setup"
    /\ tp' = ops_init(ca, tp)
    /\ call' = Plain("init", tp, Zero)
    /\ stack' = "open"
    /\ UNCHANGED <<ca, nacks, nevents>>

\* .ssthresh: the stack asks for the new threshold
SlowStartThreshold ==
    /\ stack /= "setup"
    /\ ~call.trap
    /\ call' = Plain("ssthresh", tp, ops_ssthresh(ca, tp))
    /\ UNCHANGED <<ca, tp, stack, nacks, nevents>>

\* .cong_avoid, on an ACK that advances the window.  The undefined outcome
\* ub is drawn only for a call that divides by zero.
OnAcknowledge ==
    /\ stack /= "setup"
    /\ ~call.trap
    /\ nacks < MaxAcks
    /\ \E limited \in BOOLEAN, acked \in AckedSamples, ub \in UBOutcomes :
          \E r \in {ops_cong_avoid(ca, tp, limited, acked, ub)} :
              /\ r.div0 \/ ub = NoUB
              /\ tp' = r.tp
              /\ call' = Call("cong_avoid", limited, acked, tp, r, Zero)
    /\ nacks' = nacks + 1
    /\ UNCHANGED <<ca, stack, nevents>>

\* .undo_cwnd: the stack asks for the window to restore, after a reduction
UndoCongestionWindow ==
    /\ stack \in {"reduced", "undone"}
    /\ ~call.trap
    /\ call' = Plain("undo_cwnd", tp, ops_undo_cwnd(ca, tp))
    /\ UNCHANGED <<ca, tp, stack, nacks, nevents>>

\* the stack, on a congestion event: snapshots the window and takes the
\* threshold .ssthresh returned
StackEnterCongestion ==
    /\ call.op = "ssthresh"
    /\ nevents < MaxEvents
    /\ tp' = [tp EXCEPT !.prior_cwnd = tp.snd_cwnd, !.snd_ssthresh = call.ret]
    /\ call' = Plain("stack_enter", tp, Zero)
    /\ stack' = "cwr"
    /\ nevents' = nevents + 1
    /\ UNCHANGED <<ca, nacks>>

\* the stack reduces the window to the threshold
StackReduceCwnd ==
    /\ stack = "cwr"
    /\ ~call.trap
    /\ tp' = [tp EXCEPT !.snd_cwnd = tp.snd_ssthresh]
    /\ call' = Plain("stack_reduce", tp, Zero)
    /\ stack' = "reduced"
    /\ UNCHANGED <<ca, nacks, nevents>>

\* the stack, having judged the event spurious: cwnd := .undo_cwnd()
StackUndo ==
    /\ call.op = "undo_cwnd"
    /\ tp' = [tp EXCEPT !.snd_cwnd = call.ret]
    /\ call' = Plain("stack_undo", tp, Zero)
    /\ stack' = "undone"
    /\ UNCHANGED <<ca, nacks, nevents>>

Next ==
    \/ Initialize
    \/ SlowStartThreshold
    \/ OnAcknowledge
    \/ UndoCongestionWindow
    \/ StackEnterCongestion
    \/ StackReduceCwnd
    \/ StackUndo

Spec == Init /\ [][Next]_vars

TypeOK ==
    /\ ca \in Variants
    /\ \A f \in DOMAIN tp : IsU32(tp[f])
    /\ stack \in {"setup", "open", "cwr", "reduced", "undone"}
    /\ nacks \in 0 .. MaxAcks
    /\ nevents \in 0 .. MaxEvents

(***************************************************************************)
(* The queries as pure functions: any struct the connection may hold      *)
(* after a reduction, the queries .ssthresh and .undo_cwnd on it, and what *)
(* the stack does with their results.  No cong_avoid call.                 *)
(***************************************************************************)
CwndSamples == {Zero, One, U32(2), U32(3), U32(4), U32(5), U32(100),
                U32(TCP_INFINITE_SSTHRESH), <<Half - 1, Half - 2>>, U32_MAX}

InitCalls ==
    /\ ca \in Variants
    /\ \E cwnd \in CwndSamples, prior \in CwndSamples :
          tp = [snd_cwnd |-> cwnd, snd_ssthresh |-> U32(TCP_INFINITE_SSTHRESH),
                snd_cwnd_cnt |-> Zero, mss_cache |-> U32(1460), srtt_us |-> Zero,
                snd_cwnd_clamp |-> U32_MAX, prior_cwnd |-> prior]
    /\ call = Plain("none", tp, Zero)
    /\ stack = "reduced"
    /\ nacks = 0
    /\ nevents = 0

NextCalls ==
    \/ SlowStartThreshold
    \/ UndoCongestionWindow
    \/ StackEnterCongestion
    \/ StackReduceCwnd
    \/ StackUndo

SpecCalls == InitCalls /\ [][NextCalls]_vars

(***************************************************************************)
(* reno_abc in congestion avoidance, acknowledged below one window at a    *)
(* time: the connection is window-limited and every ACK covers at least 1  *)
(* byte and fewer than target = snd_cwnd * mss_cache bytes.  The stack     *)
(* keeps delivering such ACKs for as long as the window is below its       *)
(* clamp.  No congestion event.                                            *)
(***************************************************************************)
\* the structs the run starts from, <<snd_cwnd, snd_ssthresh, snd_cwnd_cnt,
\* mss_cache, snd_cwnd_clamp>>: small windows just above a threshold of 2 or
\* 6, with no credit, some credit, or (the window having been reduced since
\* the credit was gathered) more credit than the window; and a window of
\* 2^31 + 1 segments, which slow start reaches from cwnd = 1 in one call
\* with mss_cache = 1
AccumStarts ==
    ({U32(3), U32(7)} \X {U32(2), U32(6)} \X {Zero, U32(2), U32(9)}
        \X {One, U32(1000), U32(1460)} \X {U32(12)})
    \cup {<<(<<32768, 1>>), U32(TCP_INFINITE_SSTHRESH), Zero, One, (<<32768, 2>>)>>}

\* acked: a byte, a small segment, a full segment; for a window of 2^16
\* segments or more, a quarter and a half of 2^32
AccumAcked(t) ==
    IF t.snd_cwnd[1] = 0 THEN {One, U32(100), U32(1460)}
    ELSE {<<16384, 0>>, <<32768, 0>>}

InitAccumulate ==
    /\ ca = "reno_abc"
    /\ \E s \in AccumStarts :
          /\ Lt(s[2], s[1])
          /\ tp = [snd_cwnd |-> s[1], snd_ssthresh |-> s[2], snd_cwnd_cnt |-> s[3],
                   mss_cache |-> s[4], srtt_us |-> Zero, snd_cwnd_clamp |-> s[5],
                   prior_cwnd |-> Zero]
    /\ call = Plain("none", tp, Zero)
    /\ stack = "open"
    /\ nacks = 0
    /\ nevents = 0

\* .cong_avoid on a window-limited ACK of 1 <= acked < target bytes, in
\* congestion avoidance below the clamp
AckBelowTarget ==
    /\ Lt(tp.snd_ssthresh, tp.snd_cwnd)
    /\ Lt(tp.snd_cwnd, tp.snd_cwnd_clamp)
    /\ \E acked \in AccumAcked(tp) :
          /\ Lt(acked, Mul(tp.snd_cwnd, tp.mss_cache).val)
          /\ \E r \in {ops_cong_avoid(ca, tp, TRUE, acked, NoUB)} :
                /\ tp' = r.tp
                /\ call' = Call("cong_avoid", TRUE, acked, tp, r, Zero)
    /\ UNCHANGED <<ca, stack, nacks, nevents>>

NextAccumulate == AckBelowTarget

\* the stack delivers the next ACK whenever one is due
SpecAccumulate == InitAccumulate /\ [][NextAccumulate]_vars /\ WF_vars(AckBelowTarget)

(***************************************************************************)
(* reno_fair at or below the threshold, e.g. where the stack's reduction   *)
(* cwnd := ssthresh leaves it: the connection is window-limited and ACKs   *)
(* of at least one byte keep arriving.  No congestion event, so the stack  *)
(* leaves snd_ssthresh alone.                                              *)
(***************************************************************************)
\* snd_cwnd at the start: the initial window, one below the threshold 6,
\* and at it
GrowCwnds == {One, U32(5), U32(6)}

\* snd_ssthresh: the threshold after a reduction of cwnd = 12, or of 100
GrowSsthreshs == {U32(6), U32(50)}

\* acked: one byte, two, a small segment, several segments
GrowAcked == {One, U32(2), U32(100), U32(9000)}

InitFairGrow ==
    /\ ca = "reno_fair"
    /\ \E cwnd \in GrowCwnds, ssthresh \in GrowSsthreshs, clamp \in ClampSamples,
          srtt \in {Zero, U32(1600000)} :
          /\ Le(cwnd, ssthresh)
          /\ Lt(ssthresh, clamp)
          /\ tp = [snd_cwnd |-> cwnd, snd_ssthresh |-> ssthresh, snd_cwnd_cnt |-> Zero,
                   mss_cache |-> U32(1460), srtt_us |-> srtt, snd_cwnd_clamp |-> clamp,
                   prior_cwnd |-> Zero]
    /\ call = Plain("none", tp, Zero)
    /\ stack = "open"
    /\ nacks = 0
    /\ nevents = 0

\* .cong_avoid on a window-limited ACK of at least one byte
AckArrives ==
    /\ \E acked \in GrowAcked :
          \E r \in {ops_cong_avoid(ca, tp, TRUE, acked, NoUB)} :
              /\ tp' = r.tp
              /\ call' = Call("cong_avoid", TRUE, acked, tp, r, Zero)
    /\ UNCHANGED <<ca, stack, nacks, nevents>>

NextFairGrow == AckArrives

\* the stack delivers the next ACK whenever one is due
SpecFairGrow == InitFairGrow /\ [][NextFairGrow]_vars /\ WF_vars(AckArrives)

(***************************************************************************)
(* Claims                                                                  *)
(***************************************************************************)
\* 1 <= cwnd <= cwnd_clamp
InBounds(t) == Le(One, t.snd_cwnd) /\ Le(t.snd_cwnd, t.snd_cwnd_clamp)

\* min(a + b, clamp) over the unbounded integers
AddClamp(a, b, clamp) ==
    LET s == Add(a, b) IN IF s.carry = 1 THEN clamp ELSE min(s.val, clamp)

\* C1 (as claimed): a cong_avoid call of either module, made in a state
\* with 1 <= cwnd <= cwnd_clamp, leaves 1 <= cwnd <= cwnd_clamp, whatever
\* acked, mss_cache, srtt_us, snd_ssthresh and the window-limited flag are.
\* Stated for the calls that do not divide by zero (those are C3's), so
\* that a violation is one of defined behaviour.
C1_WindowBounds ==
    (call.op = "cong_avoid" /\ ~call.div0 /\ InBounds(call.pre)) => InBounds(tp)

\* C2: a cong_avoid call made while the connection is not window-limited
\* takes no branch and leaves every field of the struct as it was, in both
\* modules, for every acked and in both phases.
C2_NotLimitedNoop ==
    (call.op = "cong_avoid" /\ ~call.limited) => (tp = call.pre /\ call.branch = "none")

\* C2's case: reno_abc, not window-limited, in congestion avoidance, with
\* the largest acked
C2_Witness ==
    /\ ca = "reno_abc"
    /\ call.op = "cong_avoid"
    /\ ~call.limited
    /\ call.acked = U32_MAX
    /\ Lt(call.pre.snd_ssthresh, call.pre.snd_cwnd)

\* the divisor of the branch reno_abc's cong_avoid takes in t is zero
AbcDivisorZero(t) ==
    IF Le(t.snd_cwnd, t.snd_ssthresh) THEN t.mss_cache = Zero
    ELSE Mul(t.snd_cwnd, t.mss_cache).val = Zero

\* C3 (as claimed): a window-limited cong_avoid call of reno_abc whose
\* divisor is zero (mss_cache in slow start, target in congestion
\* avoidance) divides by nothing and adds exactly 1 to cwnd, clamped.
C3_DivisionByZeroDefence ==
    (ca = "reno_abc" /\ call.op = "cong_avoid" /\ call.limited /\ AbcDivisorZero(call.pre))
        => /\ ~call.div0
           /\ tp.snd_cwnd = AddClamp(call.pre.snd_cwnd, One, call.pre.snd_cwnd_clamp)

\* C4: .ssthresh returns max(floor(cwnd / 2), 2), never less than 2, and
\* changes no field, in both modules.
C4_SlowStartThreshold ==
    call.op = "ssthresh"
        => /\ call.ret = max(Div(call.pre.snd_cwnd, U32(2)), U32(2))
           /\ Le(U32(2), call.ret)
           /\ tp = call.pre

\* C4's case: the threshold of cwnd = 4294967294 is 2147483647
C4_Witness ==
    /\ call.op = "ssthresh"
    /\ call.pre.snd_cwnd = <<Half - 1, Half - 2>>
    /\ call.ret = U32(2147483647)

\* C5: after .init, from whatever the struct held, cwnd is 1 and ssthresh
\* is TCP_INFINITE_SSTHRESH, so cwnd <= ssthresh; and the first cong_avoid
\* call after it, if window-limited, takes the slow-start branch.
C5_InitializePost ==
    /\ call.op = "init"
          => /\ tp.snd_cwnd = One
             /\ tp.snd_ssthresh = U32(TCP_INFINITE_SSTHRESH)
             /\ Le(tp.snd_cwnd, tp.snd_ssthresh)
    /\ (call.op = "cong_avoid" /\ call.limited /\ nacks = 1 /\ stack = "open")
          => call.branch = "slow_start"

\* C5's case: reno_fair initialised over a struct that held cwnd =
\* 4294967295 and ssthresh = 2
C5_Witness ==
    /\ ca = "reno_fair"
    /\ call.op = "init"
    /\ call.pre.snd_cwnd = U32_MAX
    /\ call.pre.snd_ssthresh = U32(2)

\* the u32 expressions of the two modules' cong_avoid (the kernel helpers'
\* own arithmetic is reported under the helper's name)
ModuleExprs == {"snd_cwnd += delta", "target = w * mss_cache",
                "snd_cwnd += acked / target", "acked * rtt_ratio"}

\* a window-limited cong_avoid call of module name, which divided by no
\* zero, in slow start (phase "slow_start") or congestion avoidance
Acked(name, phase) ==
    /\ ca = name
    /\ call.op = "cong_avoid"
    /\ call.limited
    /\ ~call.div0
    /\ call.branch = phase

\* C6 (as claimed): reno_abc, window-limited, slow start, mss >= 1:
\* cwnd becomes min(cwnd + max(floor(acked / mss), 1), cwnd_clamp), the sum
\* taken over the integers; with acked < mss and cwnd < cwnd_clamp that is
\* cwnd + 1.
C6_AbcSlowStartIncrement ==
    (Acked("reno_abc", "slow_start") /\ call.pre.mss_cache /= Zero)
        => /\ Le(call.pre.snd_cwnd, call.pre.snd_ssthresh)
           /\ tp.snd_cwnd = AddClamp(call.pre.snd_cwnd,
                                     max(Div(call.acked, call.pre.mss_cache), One),
                                     call.pre.snd_cwnd_clamp)
           /\ (Lt(call.acked, call.pre.mss_cache)
               /\ Lt(call.pre.snd_cwnd, call.pre.snd_cwnd_clamp))
                 => tp.snd_cwnd = Add(call.pre.snd_cwnd, One).val

\* C6 holds of every call in which snd_cwnd += delta does not wrap
C6_UnlessWrapped ==
    call.wrapped = {} => C6_AbcSlowStartIncrement

\* a call of C6's example: mss = 1460, acked = 100, cwnd 1 -> 2
C6_Example ==
    /\ Acked("reno_abc", "slow_start")
    /\ call.pre.mss_cache = U32(1460)
    /\ call.acked = U32(100)
    /\ call.pre.snd_cwnd = One
    /\ tp.snd_cwnd = U32(2)

\* C7 (as claimed): reno_abc, window-limited, congestion avoidance,
\* target = cwnd * mss > 0 (the integer product) and acked >= target:
\* cwnd becomes min(cwnd + floor(acked / target), cwnd_clamp), the sum taken
\* over the integers, and no other field changes: the credit counter keeps
\* its value, so nothing of acked mod target is carried to a later call.
C7_AbcByteCredit ==
    LET prod == Mul(call.pre.snd_cwnd, call.pre.mss_cache)
    IN  (/\ Acked("reno_abc", "cong_avoid")
         /\ ~prod.ovf
         /\ prod.val /= Zero
         /\ Le(prod.val, call.acked))
            => /\ Lt(call.pre.snd_ssthresh, call.pre.snd_cwnd)
               /\ ~call.ai.called
               /\ tp = [call.pre EXCEPT !.snd_cwnd =
                           AddClamp(call.pre.snd_cwnd, Div(call.acked, prod.val),
                                    call.pre.snd_cwnd_clamp)]

\* C7 holds of every call in which snd_cwnd += acked / target does not wrap
C7_UnlessWrapped ==
    call.wrapped = {} => C7_AbcByteCredit

\* a call of C7's example: cwnd = 10, mss = 1000, acked = 25000, cwnd -> 12
C7_Example ==
    /\ Acked("reno_abc", "cong_avoid")
    /\ call.pre.snd_cwnd = U32(10)
    /\ call.pre.mss_cache = U32(1000)
    /\ call.acked = U32(25000)
    /\ tp.snd_cwnd = U32(12)
    /\ tp.snd_cwnd_cnt = call.pre.snd_cwnd_cnt

\* C8: reno_abc's .undo_cwnd returns max(cwnd, prior_cwnd) -- cwnd when
\* prior_cwnd <= cwnd, prior_cwnd otherwise -- and writes nothing; the
\* window the stack then assigns is never below the snapshot prior_cwnd;
\* and the undo of the restored struct returns the restored window again.
C8_AbcUndo ==
    /\ (ca = "reno_abc" /\ call.op = "undo_cwnd")
          => /\ call.ret = IF Le(call.pre.prior_cwnd, call.pre.snd_cwnd)
                           THEN call.pre.snd_cwnd ELSE call.pre.prior_cwnd
             /\ tp = call.pre
             /\ tcp_reno_abc_undo_cwnd([call.pre EXCEPT !.snd_cwnd = call.ret]) = call.ret
    /\ (ca = "reno_abc" /\ call.op = "stack_undo")
          => /\ Le(tp.prior_cwnd, tp.snd_cwnd)
             /\ Le(call.pre.snd_cwnd, tp.snd_cwnd)
             /\ tcp_reno_abc_undo_cwnd(tp) = tp.snd_cwnd

\* C8's case: snapshot of cwnd = 100, reduction to the threshold 50, and
\* the undo that restores 100
C8_Witness ==
    /\ ca = "reno_abc"
    /\ call.op = "stack_undo"
    /\ nevents = 1
    /\ tp.prior_cwnd = U32(100)
    /\ call.pre.snd_cwnd = U32(50)
    /\ tp.snd_cwnd = U32(100)

\* rtt_ratio as C9 states it: floor(current_rtt / 10000) when current_rtt
\* = floor(srtt_us / 8) exceeds 10000, else 1
ClaimedRatio(srtt_us) ==
    LET current_rtt == Div(srtt_us, U32(8))
    IN  IF Lt(U32(10000), current_rtt) THEN Div(current_rtt, U32(10000)) ELSE One

\* C9 (as claimed): reno_fair, window-limited, congestion avoidance: the
\* accumulator is called with the window cwnd, unmodified, and the credit
\* acked * ratio, the integer product, whatever its size (no cap on ratio).
C9_FairRatioCredit ==
    LET prod == Mul(call.acked, ClaimedRatio(call.pre.srtt_us))
    IN  Acked("reno_fair", "cong_avoid")
            => /\ Lt(call.pre.snd_ssthresh, call.pre.snd_cwnd)
               /\ call.ai.called
               /\ call.ai.w = call.pre.snd_cwnd
               /\ ~prod.ovf
               /\ call.ai.acked = prod.val

\* C9 but for the size of the product: the credit handed over is the low
\* 32 bits of acked * ratio
C9_CreditModulo ==
    Acked("reno_fair", "cong_avoid")
        => /\ call.ai.called
           /\ call.ai.w = call.pre.snd_cwnd
           /\ call.ai.acked = Mul(call.acked, ClaimedRatio(call.pre.srtt_us)).val

\* a call of C9's example: current_rtt = 200000, ratio 20, acked = 100,
\* credit 2000
C9_Example ==
    /\ Acked("reno_fair", "cong_avoid")
    /\ call.pre.srtt_us = U32(1600000)
    /\ call.acked = U32(100)
    /\ call.ai.acked = U32(2000)

\* C10 (as claimed): in no cong_avoid call does one of the modules' own
\* u32 expressions -- snd_cwnd += delta, target = w * mss_cache, snd_cwnd +=
\* acked / target, acked * rtt_ratio -- wrap modulo 2^32.  Stated for the
\* calls that do not divide by zero.
C10_NoOverflow ==
    (call.op = "cong_avoid" /\ ~call.div0) => call.wrapped \cap ModuleExprs = {}

\* C11: reno_fair's .undo_cwnd returns the current cwnd whatever prior_cwnd
\* holds, and writes nothing; so after the stack's snapshot, its reduction of
\* cwnd to the threshold and cwnd := undo_cwnd(), cwnd is still the reduced
\* value.
C11_FairUndo ==
    /\ (ca = "reno_fair" /\ call.op = "undo_cwnd")
          => /\ call.ret = call.pre.snd_cwnd
             /\ tp = call.pre
             /\ \A prior \in CwndSamples :
                   tcp_fair_undo_cwnd([call.pre EXCEPT !.prior_cwnd = prior]) = call.pre.snd_cwnd
    /\ (ca = "reno_fair" /\ call.op = "stack_undo")
          => /\ tp.snd_cwnd = call.pre.snd_cwnd
             /\ nevents > 0 => tp.snd_cwnd = tp.snd_ssthresh

\* C11's case: snapshot of cwnd = 100, reduction to the threshold 50, and
\* the undo that leaves 50
C11_Witness ==
    /\ ca = "reno_fair"
    /\ call.op = "stack_undo"
    /\ nevents = 1
    /\ tp.prior_cwnd = U32(100)
    /\ call.pre.snd_cwnd = U32(50)
    /\ tp.snd_cwnd = U32(50)

\* the last operation was a cong_avoid call that left cwnd larger
Grew == call.op = "cong_avoid" /\ Lt(call.pre.snd_cwnd, tp.snd_cwnd)

\* the credit gathered by the end of the last call, counter plus acked over
\* the integers, is at least the window w
CreditReached ==
    LET s == Add(call.pre.snd_cwnd_cnt, call.acked)
    IN  s.carry = 1 \/ Le(call.pre.snd_cwnd, s.val)

\* C12, the part about one call: reno_abc, window-limited, in congestion
\* avoidance with 1 <= acked < target, hands the window w = cwnd and the
\* credit acked to the accumulator, and cwnd grows in that call only if the
\* credit gathered has reached w.
C12_Delegates ==
    (/\ Acked("reno_abc", "cong_avoid")
     /\ Le(One, call.acked)
     /\ Lt(call.acked, Mul(call.pre.snd_cwnd, call.pre.mss_cache).val))
        => /\ call.ai.called
           /\ call.ai.w = call.pre.snd_cwnd
           /\ call.ai.acked = call.acked
           /\ Grew => CreditReached

\* C12 (as claimed): under repeated window-limited calls with 1 <= acked <
\* target, in congestion avoidance below the clamp, cwnd eventually grows.
C12_EventuallyGrows == <>Grew

\* a call of C12's case that grew the window: w = 3, counter 2, acked = 1
C12_Example ==
    /\ Acked("reno_abc", "cong_avoid")
    /\ call.ai.called
    /\ call.pre.snd_cwnd = U32(3)
    /\ call.pre.snd_cwnd_cnt = U32(2)
    /\ call.acked = One
    /\ tp.snd_cwnd = U32(4)
    /\ tp.snd_cwnd_cnt = Zero

\* C13 (as claimed): reno_fair, window-limited, slow start: cwnd becomes
\* min(min(cwnd + acked, ssthresh), cwnd_clamp), the sum taken over the
\* integers, so never above ssthresh; no RTT ratio is applied, the
\* accumulator is not called and its counter keeps its value, whatever part
\* of acked slow start left unused; no other field changes.
C13_FairSlowStart ==
    LET s == Add(call.pre.snd_cwnd, call.acked)
        grown == IF s.carry = 1 THEN call.pre.snd_ssthresh
                 ELSE min(s.val, call.pre.snd_ssthresh)
    IN  Acked("reno_fair", "slow_start")
            => /\ Le(call.pre.snd_cwnd, call.pre.snd_ssthresh)
               /\ tp = [call.pre EXCEPT !.snd_cwnd = min(grown, call.pre.snd_cwnd_clamp)]
               /\ Le(tp.snd_cwnd, call.pre.snd_ssthresh)
               /\ ~call.ai.called

\* C13 holds of every call in which tcp_slow_start's snd_cwnd + acked does
\* not wrap
C13_UnlessWrapped ==
    call.wrapped = {} => C13_FairSlowStart

\* a call of C13's case: cwnd = ssthresh = 6 after a reduction, an RTT 20
\* times the base, acked = 100: slow start uses none of acked, cwnd stays 6
\* and the counter 0
C13_Example ==
    /\ Acked("reno_fair", "slow_start")
    /\ call.pre.srtt_us = U32(1600000)
    /\ call.pre.snd_cwnd = U32(6)
    /\ call.pre.snd_ssthresh = U32(6)
    /\ call.acked = U32(100)
    /\ tp.snd_cwnd = U32(6)
    /\ tp.snd_cwnd_cnt = Zero

\* C14 (as claimed): reno_fair, started with cwnd <= ssthresh < cwnd_clamp
\* and acknowledged, window-limited, by at least one byte per call for ever,
\* with ssthresh left alone: eventually cwnd > ssthresh, the state in which
\* the congestion-avoidance branch is taken.
C14_LeavesSlowStart == <>Lt(tp.snd_ssthresh, tp.snd_cwnd)

\* what the code does instead: every call takes the slow-start branch, the
\* accumulator is never called, and cwnd stays at or below ssthresh
C14_StaysInSlowStart ==
    /\ Le(tp.snd_cwnd, tp.snd_ssthresh)
    /\ call.op = "cong_avoid" => (call.branch = "slow_start" /\ ~call.ai.called)

\* C14's case: cwnd at the threshold 6, acknowledged by 9000 bytes, still 6
C14_Example ==
    /\ Acked("reno_fair", "slow_start")
    /\ call.pre.snd_cwnd = U32(6)
    /\ call.pre.snd_ssthresh = U32(6)
    /\ call.acked = U32(9000)
    /\ tp.snd_cwnd = U32(6)

\* C15 (as claimed): a cong_avoid call of either module, entered with cwnd
\* <= cwnd_clamp, never leaves cwnd smaller than it found it, whatever
\* acked, mss_cache and srtt_us are.  Stated for the calls that do not
\* divide by zero.
C15_NeverShrinks ==
    (/\ call.op = "cong_avoid"
     /\ ~call.div0
     /\ Le(call.pre.snd_cwnd, call.pre.snd_cwnd_clamp))
        => Le(call.pre.snd_cwnd, tp.snd_cwnd)

\* C15 holds of every call in which no u32 expression wraps
C15_UnlessWrapped ==
    call.wrapped = {} => C15_NeverShrinks

\* a call of C15's case that grew the window: reno_fair in congestion
\* avoidance, cwnd = 101, credit 2000 for acked = 100, cwnd -> 120
C15_Example ==
    /\ Acked("reno_fair", "cong_avoid")
    /\ call.pre.snd_cwnd = U32(101)
    /\ call.acked = U32(100)
    /\ call.ai.acked = U32(2000)
    /\ tp.snd_cwnd = U32(120)
    /\ tp.snd_cwnd_cnt = U32(81)

\* what a window-limited cong_avoid call of reno_abc with acked bytes would
\* make of the struct t: the window, and whether the call is clean (nothing
\* wraps, nothing is divided by zero, the clamp is not reached)
AbcGrowth(t, acked) ==
    LET r == tcp_reno_abc_cong_avoid(t, TRUE, acked, NoUB)
    IN  [cwnd |-> r.tp.snd_cwnd,
         clean |-> r.wrapped = {} /\ ~r.div0 /\ Lt(r.tp.snd_cwnd, t.snd_cwnd_clamp)]

\* the last call was a clean window-limited call of reno_abc in congestion
\* avoidance, made with the credit counter at 0
CleanAbcCall ==
    /\ Acked("reno_abc", "cong_avoid")
    /\ call.pre.snd_cwnd_cnt = Zero
    /\ call.wrapped = {}
    /\ Lt(tp.snd_cwnd, call.pre.snd_cwnd_clamp)

\* C16 (as claimed): reno_abc in congestion avoidance with the counter at
\* 0, clamp not reached, nothing wrapping: had the call been made with more
\* bytes acknowledged (any larger sample, or exactly target = cwnd * mss,
\* which adds exactly 1), cwnd would have grown at least as much.
C16_MonotoneInAcked ==
    LET target == Mul(call.pre.snd_cwnd, call.pre.mss_cache).val
    IN  CleanAbcCall
            => /\ AbcGrowth(call.pre, target).clean
                    => AbcGrowth(call.pre, target).cwnd = Add(call.pre.snd_cwnd, One).val
               /\ \A more \in AckedSamples \cup {target} :
                    (Le(call.acked, more) /\ AbcGrowth(call.pre, more).clean)
                        => Le(tp.snd_cwnd, AbcGrowth(call.pre, more).cwnd)

\* what holds instead: growth is monotone among the calls that acknowledge
\* at least target bytes
C16_MonotoneFromTarget ==
    LET target == Mul(call.pre.snd_cwnd, call.pre.mss_cache).val
    IN  (CleanAbcCall /\ Le(target, call.acked))
            => \A more \in AckedSamples \cup {target} :
                    (Le(call.acked, more) /\ AbcGrowth(call.pre, more).clean)
                        => Le(tp.snd_cwnd, AbcGrowth(call.pre, more).cwnd)

\* a call of C16's case: cwnd = 26, mss = 1000, target = 26000; acked =
\* 25000 takes the accumulator path and adds floor(25000 / 26) = 961
C16_Example ==
    /\ CleanAbcCall
    /\ call.ai.called
    /\ call.pre.snd_cwnd = U32(26)
    /\ call.pre.mss_cache = U32(1000)
    /\ call.acked = U32(25000)
    /\ tp.snd_cwnd = U32(26 + 961)

\* the fields of t a cong_avoid call has no business with
Framed(t) == <<t.snd_ssthresh, t.mss_cache, t.srtt_us, t.snd_cwnd_clamp, t.prior_cwnd>>

\* C17: a cong_avoid call of either module, window-limited or not, in
\* either phase, leaves ssthresh, mss, srtt, cwnd_clamp and prior_cwnd as
\* they were (only cwnd and the credit counter may change); and of the four
\* operations only init changes ssthresh.
C17_OnAckFrame ==
    /\ call.op = "cong_avoid" => Framed(tp) = Framed(call.pre)
    /\ call.op \in {"cong_avoid", "ssthresh", "undo_cwnd"}
          => tp.snd_ssthresh = call.pre.snd_ssthresh

\* C17's case: reno_abc in congestion avoidance, cwnd = 26, mss = 1000,
\* acked = 9000: the call changes cwnd (to 372) and the counter (to 4)
C17_Witness ==
    /\ Acked("reno_abc", "cong_avoid")
    /\ call.pre.snd_cwnd = U32(26)
    /\ call.pre.snd_cwnd_cnt = Zero
    /\ call.acked = U32(9000)
    /\ tp.snd_cwnd = U32(372)
    /\ tp.snd_cwnd_cnt = U32(4)

====
